---- MODULE Spec2Model ----
(***************************************************************************)
(* Model of keras_transformer/transformer.py: the Adaptive Computation     *)
(* Time layer (TransformerACT) as a state machine over its control         *)
(* tensors, and TransformerBlock: its constructor, the argument handling   *)
(* of __call__ and the order in which __call__ composes the sub-layers     *)
(* (as symbolic terms).                                                    *)
(*                                                                         *)
(* Numbers are fixed point: One (= 100) stands for the float 1.0, so a     *)
(* halting probability of 0.40 is 40 and halt_epsilon = 0.01 is 1.         *)
(* A tensor of shape (batch, seq) is a sequence of rows, each a sequence   *)
(* of numbers; the feature axis has d_model = 1 and is left implicit.      *)
(* Python's None is the empty sequence for tensors and 0 for batch_size.   *)
(***************************************************************************)
EXTENDS Integers, Sequences, FiniteSets, TLC

VARIABLES
    return_step,        \* constructor argument: also return active_steps
    built,              \* Layer.built: build() has run for this instance
    halting_kernel,     \* weight created by build (0 before build)
    zeros_like_halting, \* control tensors of TransformerACT ...
    ones_like_halting,
    halt_budget,
    remainder,
    active_steps,
    batch_size,         \* self.batch_size (0 = attribute not set yet)
    zeros_like_input,
    weighted_output,
    ponder_cost,        \* per batch row <<numerator, sequence_length>>
    losses,             \* what add_loss has registered
    ops,                \* number of operations on the instance (history)
    calls,              \* number of completed calls (history)
    work,               \* number of tokens the completed calls processed (history)
    weight_sum,         \* history: per token, sum of halting_prob since (re)init
    halted,             \* history: per token, some call was active and exhausting
    n_active,           \* history: per token, calls since (re)init with budget > 0
    halting_sum,        \* history: per token, sum of halting since (re)init
    step_sum,           \* history: sum of step_weighted_output since (re)init
    ponder_hist,        \* history: the ponder_cost computed by each completed call
    last,               \* record of the last operation and its intermediates
    block,              \* the TransformerBlock instance (configuration)
    blk_last            \* record of the last TransformerBlock operation

act_state == <<halt_budget, remainder, active_steps, weighted_output,
               ponder_cost, batch_size>>

act_vars == <<return_step, built, halting_kernel, zeros_like_halting, ones_like_halting,
              halt_budget, remainder, active_steps, batch_size,
              zeros_like_input, weighted_output, ponder_cost, losses,
              ops, calls, work, weight_sum, halted, n_active, halting_sum, step_sum,
              ponder_hist, last>>

blk_vars == <<block, blk_last>>

vars == <<act_vars, blk_vars>>

----------------------------------------------------------------------------
(* Bounds of the model *)

MaxCalls == 2        \* completed TransformerACT calls in one behaviour
MaxWork == 9         \* tokens (batch * sequence_length) processed by the
                     \* completed calls of one behaviour
MaxOps == 3          \* operations (calls that return, calls that raise,
                     \* finalize) on the instance in one behaviour
MaxBatch == 2        \* largest batch size
MaxTokens == 4       \* largest batch * sequence_length
MaxList == 3         \* longest list passed to TransformerBlock.__call__

None == <<>>

\* sequence lengths of the valid inputs: two lengths that do not broadcast
\* against each other
SeqLens == {2, 3}

\* shapes (batch, seq) of the valid inputs
Shapes == {sh \in (1..MaxBatch) \X SeqLens : sh[1] * sh[2] <= MaxTokens}

\* token features (d_model = 1): 0.31 and 6.00, which the halting unit maps
\* to the halting probabilities 0.60 and 1.00
XVals == {31, 600}

----------------------------------------------------------------------------
(* Program constants *)

One == 100
HaltEpsilon == 1
TimePenalty == 1
HaltingBias == 10
KernelVals == {100}

----------------------------------------------------------------------------
(* Backend operations on (batch, seq) tensors *)

BatchOf(t) == Len(t)
SeqOf(t) == Len(t[1])
ShapeOf(t) == <<BatchOf(t), SeqOf(t)>>

ZerosLike(t) == [b \in 1..BatchOf(t) |-> [j \in 1..SeqOf(t) |-> 0]]
OnesLike(t) == [b \in 1..BatchOf(t) |-> [j \in 1..SeqOf(t) |-> One]]

Plus(t, u) == [b \in 1..BatchOf(t) |-> [j \in 1..SeqOf(t) |-> t[b][j] + u[b][j]]]
Minus(t, u) == [b \in 1..BatchOf(t) |-> [j \in 1..SeqOf(t) |-> t[b][j] - u[b][j]]]
Times(t, u) == [b \in 1..BatchOf(t) |-> [j \in 1..SeqOf(t) |-> t[b][j] * u[b][j]]]
MinusScalar(t, c) == [b \in 1..BatchOf(t) |-> [j \in 1..SeqOf(t) |-> t[b][j] - c]]

Greater(t, c) == [b \in 1..BatchOf(t) |-> [j \in 1..SeqOf(t) |-> t[b][j] > c]]
LessEqual(t, c) == [b \in 1..BatchOf(t) |-> [j \in 1..SeqOf(t) |-> t[b][j] <= c]]

Switch(c, t, u) ==
    [b \in 1..BatchOf(c) |-> [j \in 1..SeqOf(c) |->
        IF c[b][j] THEN t[b][j] ELSE u[b][j]]]

RECURSIVE SumSeq(_)
SumSeq(s) == IF s = <<>> THEN 0 ELSE Head(s) + SumSeq(Tail(s))

\* K.sum(K.cast(step_is_active, 'int32'))
CountTrue(c) ==
    SumSeq([b \in 1..BatchOf(c) |->
        SumSeq([j \in 1..SeqOf(c) |-> IF c[b][j] THEN 1 ELSE 0])])

\* K.sigmoid on the fixed-point grid: SigmoidThresholds[k] is the least z
\* (in hundredths) with sigmoid(z) >= (k - 0.5) / 100, so Sigmoid(z) is
\* sigmoid(z / 100) rounded to the nearest hundredth
SigmoidThresholds ==
    <<-529, -418, -366, -331, -305, -284, -266, -251, -237, -225,
      -214, -204, -194, -185, -177, -169, -162, -155, -148, -141,
      -135, -129, -123, -118, -112, -107, -102, -96, -91, -87,
      -82, -77, -73, -68, -64, -59, -55, -51, -46, -42,
      -38, -34, -30, -26, -22, -18, -14, -10, -6, -2,
      3, 7, 11, 15, 19, 23, 27, 31, 35, 39,
      43, 47, 52, 56, 60, 65, 69, 74, 78, 83,
      88, 92, 97, 103, 108, 113, 119, 124, 130, 136,
      142, 149, 156, 163, 170, 178, 186, 195, 205, 215,
      226, 238, 252, 267, 285, 306, 332, 367, 419, 530>>

Sigmoid(z) == Cardinality({k \in 1..One : z >= SigmoidThresholds[k]})

\* the "sigmoid halting unit" for one token: sigmoid(x . kernel + bias),
\* d_model = 1
HaltingOf(x, kernel) == Sigmoid(((x * kernel) \div One) + HaltingBias)

\* HaltingOf, tabulated for the token features and kernels of the model
HaltingTable == [x \in XVals |-> [k \in KernelVals |-> HaltingOf(x, k)]]

\* lines 344-354: the halting unit applied to every token of the input
HaltingUnit(input, kernel) ==
    [b \in 1..BatchOf(input) |-> [j \in 1..SeqOf(input) |->
        IF input[b][j] \in XVals /\ kernel \in KernelVals
        THEN HaltingTable[input[b][j]][kernel]
        ELSE HaltingOf(input[b][j], kernel)]]

\* tf.sequence_mask(lengths, maxlen): position j (from 1) is kept iff j <= length
SequenceMask(lengths, B, S) ==
    [b \in 1..B |-> [j \in 1..S |-> IF j <= lengths[b] THEN 1 ELSE 0]]

\* variant: the mask is never applied
mask_length_never(input, lengths) == input

mask_length_if_provided(input, lengths) ==
    IF lengths = None
    THEN input
    ELSE Times(input, SequenceMask(lengths, BatchOf(input), SeqOf(input)))

----------------------------------------------------------------------------
(* Call arguments *)

\* a single tensor of some rank (input of shape (batch, seq, 1) when rank = 3)
\* or a list of n tensors (input and lengths when n = 2)
TensorArg(rank, input) ==
    [kind |-> "tensor", n |-> 0, rank |-> rank, input |-> input, lengths |-> None]
ListArg(n, input, lengths) ==
    [kind |-> "list", n |-> n, rank |-> 3, input |-> input, lengths |-> lengths]

Inputs == UNION {[1..sh[1] -> [1..sh[2] -> XVals]] : sh \in Shapes}
LengthsFor(input) == [1..BatchOf(input) -> 1..SeqOf(input)]

ValidArgs ==
    {TensorArg(3, x) : x \in Inputs}
    \cup UNION {{ListArg(2, x, l) : l \in LengthsFor(x)} : x \in Inputs}

\* arguments that are neither a two-element list nor a 3D tensor: a tensor
\* of rank 2, a list of one tensor, a list of three tensors
InvalidArgs ==
    {TensorArg(2, None), ListArg(1, None, None), ListArg(3, None, None)}

\* Layer.__call__ hands build() the shape of a single input (also when it is
\* wrapped in a one-element list) and the list of shapes otherwise; the value
\* is <<is a list, len(_input_shape)>>
BuildInputShape(arg) ==
    IF arg.kind = "tensor" THEN <<FALSE, arg.rank>>
    ELSE IF arg.n = 1 THEN <<FALSE, arg.rank>>
    ELSE <<TRUE, arg.n>>

\* the argument test of build(): "ok", "ValueError" (raise at line 296), or
\* "pass3" when a list of three shapes passes the len(_input_shape) == 3 test
\* meant for a single (batch, seq_len, d_model) shape
BuildCheck(arg) ==
    LET is == BuildInputShape(arg) IN
    IF is[1] /\ is[2] = 2 THEN "ok"
    ELSE IF is[2] = 3 THEN (IF is[1] THEN "pass3" ELSE "ok")
    ELSE "ValueError"

\* the argument test of call(): "ok" or "ValueError" (raise at line 338)
CallCheck(arg) ==
    IF arg.kind = "list" /\ arg.n = 2 THEN "ok"
    ELSE IF arg.kind = "tensor" /\ arg.rank = 3 THEN "ok"
    ELSE "ValueError"

----------------------------------------------------------------------------
(* TransformerACT *)

NoLast ==
    [op |-> "none", arg |-> TensorArg(3, None), err |-> "none", line |-> 0,
     reinit |-> FALSE, halting |-> None, budget0 |-> None, remainder0 |-> None,
     step_is_active |-> None, no_further_steps |-> None, halting_prob |-> None,
     any_step_is_active |-> FALSE, step_weighted_output |-> None,
     returned |-> <<>>]

\* TransformerACT.__init__(return_step = rs), the other arguments at their
\* defaults
ActInitWith(rs) ==
    /\ return_step = rs
    /\ built = FALSE
    /\ halting_kernel = 0
    /\ zeros_like_halting = None
    /\ ones_like_halting = None
    /\ halt_budget = None
    /\ remainder = None
    /\ active_steps = None
    /\ batch_size = 0
    /\ zeros_like_input = None
    /\ weighted_output = None
    /\ ponder_cost = None
    /\ losses = <<>>
    /\ ops = 0
    /\ calls = 0
    /\ work = 0
    /\ weight_sum = None
    /\ halted = None
    /\ n_active = None
    /\ halting_sum = None
    /\ step_sum = None
    /\ ponder_hist = <<>>
    /\ last = NoLast

\* TransformerACT(): return_step defaults to False
ActInit == ActInitWith(FALSE)

\* variant: the guard of the commented-out line 355
NeedsInitFirstCallOnly(B) == zeros_like_halting = None

\* the guard of line 356
NeedsInit(B) == zeros_like_halting = None \/ batch_size # B

\* initialize_control_tensors: the new values of
\* <<zeros_like_halting, ones_like_halting, remainder, active_steps, halt_budget>>
initialize_control_tensors(halting) ==
    [zeros |-> ZerosLike(halting),
     ones |-> OnesLike(halting),
     remainder |-> OnesLike(halting),
     active_steps |-> ZerosLike(halting),
     halt_budget |-> MinusScalar(OnesLike(halting), HaltEpsilon)]

\* the guard of line 397
NeedsZerosLikeInput(input) ==
    zeros_like_input = None \/ ShapeOf(zeros_like_input) # ShapeOf(input)

\* variant: a step without active tokens passes the input through
StepWeightedOutputPassThrough(any_step_is_active, halting_prob, input, zeros) ==
    IF any_step_is_active THEN Times(halting_prob, input) ELSE input

\* lines 403-406: the weighted output of this step, or the zero tensor when
\* no token of the batch is active
StepWeightedOutput(any_step_is_active, halting_prob, input, zeros) ==
    IF any_step_is_active THEN Times(halting_prob, input) ELSE zeros

\* variant: the accumulator is overwritten by every call
NeedsNewAccumulatorAlways(B) == TRUE

\* the guard of line 408
NeedsNewAccumulator(B) ==
    weighted_output = None \/ BatchOf(weighted_output) # B

\* variant: a token without budget is weighted like an active one
HaltingProbIgnoringBudget(step_is_active, no_further_steps, rem, halting, zeros) ==
    Switch(no_further_steps, rem, halting)

\* variant: the exhausting step is weighted by the halting output
HaltingProbNoRemainder(step_is_active, no_further_steps, rem, halting, zeros) ==
    Switch(step_is_active, halting, zeros)

\* lines 367-373: the halting probability of this step
HaltingProb(step_is_active, no_further_steps, rem, halting, zeros) ==
    Switch(step_is_active,
           Switch(no_further_steps, rem, halting),
           zeros)

\* variant: the step counter is not advanced
ActiveStepsUnchanged(steps, step_is_active, ones, zeros) == steps

\* lines 374-377: active_steps += switch(step_is_active, ones, zeros)
ActiveStepsIncremented(steps, step_is_active, ones, zeros) ==
    Plus(steps, Switch(step_is_active, ones, zeros))

\* time_penalty * mean(t, axis=1) as <<numerator, denominator>> per row
MeanPenalty(t) == [b \in 1..BatchOf(t) |-> <<TimePenalty * SumSeq(t[b]), SeqOf(t)>>]

\* variant: the ponder cost is added to the one of the previous call
PonderCostAccumulated(rem, steps) ==
    IF ponder_cost = None \/ Len(ponder_cost) # BatchOf(rem)
    THEN MeanPenalty(Plus(rem, steps))
    ELSE [b \in 1..BatchOf(rem) |->
            <<ponder_cost[b][1] + MeanPenalty(Plus(rem, steps))[b][1], SeqOf(rem)>>]

\* lines 383-384: the ponder cost from the masked remainder and active steps
PonderCost(rem, steps) == MeanPenalty(Plus(rem, steps))

\* variant: the step counter is never returned
ReturnedThree(rs, input, total, cost, steps) == <<input, total, cost>>

\* lines 412-415: the list a call returns
Returned(rs, input, total, cost, steps) ==
    IF ~rs THEN <<input, total, cost>> ELSE <<input, total, cost, steps>>

\* A call with a valid argument that runs to its return statement.
\* Includes build() on the first call of the instance.
Call(arg) ==
    LET input == arg.input
        lengths == arg.lengths
        B == BatchOf(input)
        reinit == NeedsInit(B)
    IN
    /\ ops < MaxOps
    /\ calls < MaxCalls
    /\ work + B * SeqOf(input) <= MaxWork
    /\ BuildCheck(arg) = "ok" /\ CallCheck(arg) = "ok"
    /\ IF reinit THEN TRUE ELSE ShapeOf(halt_budget) = ShapeOf(input)
    /\ \E kernel \in (IF built THEN {halting_kernel} ELSE KernelVals) :
       \E halting \in {HaltingUnit(input, kernel)} :
       \E ctl \in {IF reinit
                   THEN initialize_control_tensors(halting)
                   ELSE [zeros |-> zeros_like_halting,
                         ones |-> ones_like_halting,
                         remainder |-> remainder,
                         active_steps |-> active_steps,
                         halt_budget |-> halt_budget]} :
       \E step_is_active \in {Greater(ctl.halt_budget, 0)} :
       \E no_further_steps \in {LessEqual(Minus(ctl.halt_budget, halting), 0)} :
       \E halting_prob \in
              {HaltingProb(step_is_active, no_further_steps,
                           ctl.remainder, halting, ctl.zeros)} :
       \E steps1 \in {ActiveStepsIncremented(ctl.active_steps, step_is_active,
                                             ctl.ones, ctl.zeros)} :
       \E remainder1 \in {mask_length_if_provided(ctl.remainder, lengths)} :
       \E steps2 \in {mask_length_if_provided(steps1, lengths)} :
       \E zli \in {IF NeedsZerosLikeInput(input)
                   THEN ZerosLike(input) ELSE zeros_like_input} :
       \E any_step_is_active \in {CountTrue(step_is_active) > 0} :
       \E step_weighted_output \in
              {StepWeightedOutput(any_step_is_active, halting_prob, input, zli)} :
       \E act_now \in {Switch(step_is_active, OnesLike(halting), ZerosLike(halting))} :
       \E new_ponder_cost \in {PonderCost(remainder1, steps2)} :
        /\ built' = TRUE
        /\ halting_kernel' = kernel
        /\ zeros_like_halting' = ctl.zeros
        /\ ones_like_halting' = ctl.ones
        /\ batch_size' = B
        /\ active_steps' = steps2
        /\ ponder_cost' = new_ponder_cost
        /\ ponder_hist' = Append(ponder_hist, new_ponder_cost)
        /\ remainder' = Switch(no_further_steps, remainder1,
                                Minus(remainder1, halting))
        /\ halt_budget' = Minus(ctl.halt_budget, halting)
        /\ zeros_like_input' = zli
        /\ weighted_output' =
              IF NeedsNewAccumulator(B)
              THEN step_weighted_output
              ELSE Plus(weighted_output, step_weighted_output)
        /\ ops' = ops + 1
        /\ calls' = calls + 1
        /\ work' = work + B * SeqOf(input)
        /\ weight_sum' = IF reinit THEN halting_prob
                         ELSE Plus(weight_sum, halting_prob)
        /\ halted' = [b \in 1..B |-> [j \in 1..SeqOf(input) |->
              \/ (~reinit /\ halted[b][j])
              \/ (step_is_active[b][j] /\ no_further_steps[b][j])]]
        /\ n_active' = IF reinit THEN act_now ELSE Plus(n_active, act_now)
        /\ halting_sum' = IF reinit THEN halting ELSE Plus(halting_sum, halting)
        /\ step_sum' = IF reinit THEN step_weighted_output
                       ELSE Plus(step_sum, step_weighted_output)
        /\ last' = [NoLast EXCEPT
              !.op = "call", !.arg = arg, !.reinit = reinit,
              !.halting = halting, !.budget0 = ctl.halt_budget,
              !.remainder0 = ctl.remainder,
              !.step_is_active = step_is_active,
              !.no_further_steps = no_further_steps,
              !.halting_prob = halting_prob,
              !.any_step_is_active = any_step_is_active,
              !.step_weighted_output = step_weighted_output,
              !.returned = Returned(return_step, input, weighted_output',
                                    ponder_cost', active_steps')]
        /\ UNCHANGED <<losses, return_step>>
    /\ UNCHANGED blk_vars

\* what a rejected call leaves in the record: the shape of its input
ShapeOnly(sh) == TensorArg(3, [b \in 1..sh[1] |-> [j \in 1..sh[2] |-> 0]])

\* A call with a valid argument (input of shape sh, with or without lengths)
\* of the recorded batch size but another sequence length: the control
\* tensors are kept (line 356) and the backend rejects the subtraction of
\* line 361, before any attribute is assigned.
CallShapeMismatch(sh) ==
    /\ ops < MaxOps
    /\ ops' = ops + 1
    /\ built
    /\ ~NeedsInit(sh[1])
    /\ ShapeOf(halt_budget) # sh
    /\ last' = [NoLast EXCEPT !.op = "call", !.arg = ShapeOnly(sh),
                              !.err = "ShapeError", !.line = 361]
    /\ UNCHANGED <<return_step,
                   built, halting_kernel, zeros_like_halting, ones_like_halting,
                   halt_budget, remainder, active_steps, batch_size,
                   zeros_like_input, weighted_output, ponder_cost, losses,
                   calls, work, weight_sum, halted, n_active, halting_sum,
                   step_sum, ponder_hist>>
    /\ UNCHANGED blk_vars

\* A call whose argument is neither a two-element list nor a 3D tensor.
\* An instance that is not built yet runs build() first: it raises at line
\* 296, or lets a list of three shapes through to add_weight (line 300) with
\* d_model bound to a shape tuple, or (one-element list) builds the weights
\* and leaves the error to call().
CallInvalid(arg) ==
    /\ ops < MaxOps
    /\ ops' = ops + 1
    /\ CallCheck(arg) = "ValueError"
    /\ LET bc == IF built THEN "ok" ELSE BuildCheck(arg) IN
        \/ /\ bc = "ValueError"
           /\ last' = [NoLast EXCEPT !.op = "call", !.arg = arg,
                                     !.err = "ValueError", !.line = 296]
           /\ UNCHANGED <<built, halting_kernel>>
        \/ /\ bc = "pass3"
           /\ last' = [NoLast EXCEPT !.op = "call", !.arg = arg,
                                     !.err = "BackendError", !.line = 300]
           /\ UNCHANGED <<built, halting_kernel>>
        \/ /\ bc = "ok"
           /\ built' = TRUE
           /\ halting_kernel' \in (IF built THEN {halting_kernel} ELSE KernelVals)
           /\ last' = [NoLast EXCEPT !.op = "call", !.arg = arg,
                                     !.err = "ValueError", !.line = 338]
    /\ UNCHANGED <<return_step, zeros_like_halting, ones_like_halting,
                   halt_budget, remainder, active_steps, batch_size,
                   zeros_like_input, weighted_output, ponder_cost, losses,
                   calls, work, weight_sum, halted, n_active, halting_sum,
                   step_sum, ponder_hist>>
    /\ UNCHANGED blk_vars

\* variant: finalize registers the ponder cost of the first call
FinalizeFirstCall ==
    /\ ops < MaxOps
    /\ ops' = ops + 1
    /\ losses' = IF ponder_cost = None THEN losses
                 ELSE Append(losses, ponder_hist[1])
    /\ last' = [NoLast EXCEPT !.op = "finalize"]
    /\ UNCHANGED <<return_step,
                   built, halting_kernel, zeros_like_halting, ones_like_halting,
                   halt_budget, remainder, active_steps, batch_size,
                   zeros_like_input, weighted_output, ponder_cost,
                   calls, work, weight_sum, halted, n_active, halting_sum,
                   step_sum, ponder_hist>>
    /\ UNCHANGED blk_vars

\* finalize(): add_loss(self.ponder_cost); add_loss ignores None
Finalize ==
    /\ ops < MaxOps
    /\ ops' = ops + 1
    /\ losses' = IF ponder_cost = None THEN losses ELSE Append(losses, ponder_cost)
    /\ last' = [NoLast EXCEPT !.op = "finalize"]
    /\ UNCHANGED <<return_step,
                   built, halting_kernel, zeros_like_halting, ones_like_halting,
                   halt_budget, remainder, active_steps, batch_size,
                   zeros_like_input, weighted_output, ponder_cost,
                   calls, work, weight_sum, halted, n_active, halting_sum,
                   step_sum, ponder_hist>>
    /\ UNCHANGED blk_vars


----------------------------------------------------------------------------
(* TransformerBlock *)

MaxBlockBatch == 3   \* largest batch size of a tensor passed to the block

TransitionTypes == {"dot", "cnn", "rnn"}
DropoutRates == {0, 10}

\* Symbolic tensors: the result of a layer applied to tensors is the term
\* [op |-> layer, args |-> <<its arguments>>]; the tensors handed to the
\* block are terms without arguments. Two terms are equal iff the same
\* layers were applied to the same tensors in the same order.
Leaf(name) == [op |-> name, args |-> <<>>]
Apply(layer, args) == [op |-> layer, args |-> args]
NoTerm == Leaf("none")

NoBlock ==
    [constructed |-> FALSE, transition_type |-> "none",
     transition_layer |-> "none", dropout_layer |-> "none",
     residual_dropout |-> 0, vanilla_wiring |-> FALSE]

NoBlkLast ==
    [op |-> "none", arg |-> [kind |-> "none", n |-> 0, shape |-> <<>>],
     err |-> "none", attention_called |-> FALSE,
     input_is |-> "none", lengths_is |-> "none",
     transition_type |-> "none",
     input |-> NoTerm, lengths |-> NoTerm, output |-> NoTerm]

BlockTensorArg(shape) == [kind |-> "tensor", n |-> 0, shape |-> shape]
BlockListArg(n) == [kind |-> "list", n |-> n, shape |-> <<>>]

BlockArgs ==
    {BlockListArg(n) : n \in 1..MaxList}
    \cup {BlockTensorArg(<<b, 2>>) : b \in 1..MaxBlockBatch}
    \cup {BlockTensorArg(<<b, 2, 1>>) : b \in 1..MaxBlockBatch}
    \cup {BlockTensorArg(<<b, 2, 1, 1>>) : b \in 1..MaxBlockBatch}

\* Python's len(_input): the length of a list; for a tensor the size of its
\* first axis, or a TypeError (0 here) when the tensor type defines no len()
PyLen(arg) ==
    IF arg.kind = "list" THEN {arg.n} ELSE {arg.shape[1], 0}

\* variant: a Dropout layer is created for every rate
NewDropoutLayerAlways(residual_dropout) == "Dropout"

\* lines 189-192: a Dropout layer, or the identity function for rate 0
NewDropoutLayer(residual_dropout) ==
    IF residual_dropout > 0 THEN "Dropout" ELSE "identity"

\* variant: an unknown transition type is stored and left to the call
BlockNewAny(tt, rd, vw) ==
    /\ block' = [constructed |-> TRUE,
                 transition_type |-> tt,
                 transition_layer |->
                     IF tt = "dot" THEN "TransformerTransition" ELSE "None",
                 dropout_layer |-> NewDropoutLayer(rd),
                 residual_dropout |-> rd,
                 vanilla_wiring |-> vw]
    /\ blk_last' = [NoBlkLast EXCEPT !.op = "init", !.transition_type = tt]
    /\ UNCHANGED act_vars

\* TransformerBlock.__init__ with a supported transition type
BlockNew(tt, rd, vw) ==
    /\ tt \in {"dot", "cnn"}
    /\ block' = [constructed |-> TRUE,
                 transition_type |-> tt,
                 transition_layer |->
                     IF tt = "dot" THEN "TransformerTransition" ELSE "None",
                 dropout_layer |-> NewDropoutLayer(rd),
                 residual_dropout |-> rd,
                 vanilla_wiring |-> vw]
    /\ blk_last' = [NoBlkLast EXCEPT !.op = "init", !.transition_type = tt]
    /\ UNCHANGED act_vars

\* TransformerBlock.__init__ with any other transition type: line 202
BlockNewUnknown(tt, rd, vw) ==
    /\ tt \notin {"dot", "cnn"}
    /\ blk_last' = [NoBlkLast EXCEPT !.op = "init", !.transition_type = tt,
                                     !.err = "NotImplementedError"]
    /\ UNCHANGED block
    /\ UNCHANGED act_vars

\* the sub-layers of a block blk, applied to symbolic tensors
attention_layer(input, lengths) == Apply("attention_layer", <<input, lengths>>)
addition_layer(a, b) == Apply("addition_layer", <<a, b>>)
norm1_layer(x) == Apply("norm1_layer", <<x>>)
norm2_layer(x) == Apply("norm2_layer", <<x>>)
transition_layer(blk, x) == Apply(blk.transition_layer, <<x>>)
dropout_layer(blk, x) ==
    IF blk.dropout_layer = "identity" THEN x ELSE Apply("Dropout", <<x>>)

\* lines 225-228
post_residual1(blk, input, output) ==
    IF blk.vanilla_wiring
    THEN addition_layer(input, dropout_layer(blk, output))
    ELSE dropout_layer(blk, addition_layer(input, output))

\* variant: the second residual always applies dropout after the addition
post_residual2_universal(blk, norm1_output, output) ==
    dropout_layer(blk, addition_layer(norm1_output, output))

\* lines 231-235
post_residual2(blk, norm1_output, output) ==
    IF blk.vanilla_wiring
    THEN addition_layer(norm1_output, dropout_layer(blk, output))
    ELSE dropout_layer(blk, addition_layer(norm1_output, output))

\* lines 218-237: the tensor returned by the block blk (its transition layer
\* already created) for the tensors input and lengths
BlockOutput(blk, input, lengths) ==
    LET attention == attention_layer(input, lengths)
        norm1_output == norm1_layer(post_residual1(blk, input, attention))
        transition == transition_layer(blk, norm1_output)
    IN norm2_layer(post_residual2(blk, norm1_output, transition))

\* lines 219-224: the convolution of a 'cnn' block is created by its first call
WithTransitionLayer(blk) ==
    [blk EXCEPT !.transition_layer =
        IF @ = "None" /\ blk.transition_type = "cnn" THEN "Conv1D" ELSE @]

\* TransformerBlock.__call__: the argument test of lines 207-217 and the
\* composition of the sub-layers that follows it
BlockCall(arg) ==
    /\ block.constructed
    /\ \E len \in PyLen(arg) :
        IF arg.kind = "list" /\ arg.n = 2
        THEN /\ block' = WithTransitionLayer(block)
             /\ blk_last' = [NoBlkLast EXCEPT !.op = "call", !.arg = arg,
                    !.attention_called = TRUE,
                    !.input_is = "tensor", !.lengths_is = "tensor",
                    !.input = Leaf("_input[0]"), !.lengths = Leaf("_input[1]"),
                    !.output = BlockOutput(block', Leaf("_input[0]"),
                                           Leaf("_input[1]"))]
        ELSE IF len = 0
        THEN /\ blk_last' = [NoBlkLast EXCEPT !.op = "call", !.arg = arg,
                    !.err = "TypeError"]
             /\ UNCHANGED block
        ELSE IF len = 3
        THEN /\ block' = WithTransitionLayer(block)
             /\ blk_last' = [NoBlkLast EXCEPT !.op = "call", !.arg = arg,
                    !.attention_called = TRUE,
                    !.input_is = arg.kind, !.lengths_is = "None",
                    !.input = Leaf("_input"), !.lengths = Leaf("None"),
                    !.output = BlockOutput(block', Leaf("_input"),
                                           Leaf("None"))]
        ELSE /\ blk_last' = [NoBlkLast EXCEPT !.op = "call", !.arg = arg,
                    !.err = "ValueError"]
             /\ UNCHANGED block
    /\ UNCHANGED act_vars

----------------------------------------------------------------------------
(* Specifications *)

Init ==
    /\ ActInit
    /\ block = NoBlock
    /\ blk_last = NoBlkLast

Next ==
    \/ \E arg \in ValidArgs : Call(arg)
    \/ \E sh \in Shapes : CallShapeMismatch(sh)
    \/ \E arg \in InvalidArgs : CallInvalid(arg)
    \/ Finalize

Spec == Init /\ [][Next]_vars

NextBlock ==
    \/ \E tt \in TransitionTypes, rd \in DropoutRates, vw \in BOOLEAN :
          BlockNew(tt, rd, vw)
    \/ \E tt \in TransitionTypes, rd \in DropoutRates, vw \in BOOLEAN :
          BlockNewUnknown(tt, rd, vw)
    \/ \E arg \in BlockArgs : BlockCall(arg)

SpecBlock == Init /\ [][NextBlock]_vars

\* The operations that return a value or register a loss, on an instance
\* constructed with either value of return_step; a call that raises returns
\* nothing and changes none of the tensors a later call returns.
InitReturnStep ==
    /\ \E rs \in BOOLEAN : ActInitWith(rs)
    /\ block = NoBlock
    /\ blk_last = NoBlkLast

NextReturnStep ==
    \/ \E arg \in ValidArgs : Call(arg)
    \/ Finalize

SpecReturnStep == InitReturnStep /\ [][NextReturnStep]_vars

TypeOK ==
    /\ built \in BOOLEAN
    /\ calls \in 0..MaxCalls
    /\ ops \in 0..MaxOps
    /\ work \in 0..MaxWork
    /\ Len(losses) <= ops

----------------------------------------------------------------------------
(* Properties *)

Completed == last.op = "call" /\ last.err = "none"

\* the (row, position) pairs of a (batch, seq) tensor
Tokens(t) == UNION {{<<b, j>> : j \in 1..Len(t[b])} : b \in 1..Len(t)}

\* position j of row b lies beyond the row's length
Padding(lengths, b, j) == lengths # None /\ j > lengths[b]

\* a two-element list or a single 3-dimensional tensor
IsListOfTwoOr3D(arg) ==
    \/ arg.kind = "list" /\ arg.n = 2
    \/ arg.kind = "tensor" /\ arg.rank = 3

\* C1: budget conservation: for every token that has halted (some call found
\* it active and exhausting), the effective halting weights applied to it
\* over all calls so far sum to exactly 1, at every position of the
\* sequence, with or without lengths.
C1_BudgetConservation ==
    halted # None =>
        \A tok \in Tokens(halted) :
            halted[tok[1]][tok[2]] => weight_sum[tok[1]][tok[2]] = One

\* C2 as worded: in every call the effective halting weight of a token is
\* the current remainder if it is active and exhausted by this step, p if it
\* is active and not exhausted, 0 if it is not active; on the first call of
\* a fresh instance the budget is 1 - halt_epsilon (0.99) for every token,
\* and every token with p = 1.0 is exhausted, weighted by the remainder 1 and
\* gets active_steps = 1.
C2_EffectiveWeightEveryToken ==
    Completed =>
        \A tok \in Tokens(last.halting) :
            LET b == tok[1]
                j == tok[2]
                bud == last.budget0[b][j]
                p == last.halting[b][j]
                w == last.halting_prob[b][j]
            IN
            /\ (bud > 0 /\ bud - p <= 0) => w = last.remainder0[b][j]
            /\ (bud > 0 /\ bud - p > 0) => w = p
            /\ bud <= 0 => w = 0
            /\ calls = 1 =>
                /\ bud = One - HaltEpsilon
                /\ p = One =>
                    /\ bud - p <= 0
                    /\ w = One
                    /\ last.remainder0[b][j] = One
                    /\ active_steps[b][j] = One

\* C2 amended: the effective halting weight is as above at every token; on
\* the first call of a fresh instance the budget is 0.99 for every token,
\* and a token with p = 1.0 is exhausted and weighted by the remainder 1;
\* it gets active_steps = 1 at a position within the row's length, and
\* active_steps = 0 at a padding position when lengths are supplied.
C2_EffectiveWeight ==
    Completed =>
        \A tok \in Tokens(last.halting) :
            LET b == tok[1]
                j == tok[2]
                bud == last.budget0[b][j]
                p == last.halting[b][j]
                w == last.halting_prob[b][j]
            IN
            /\ (bud > 0 /\ bud - p <= 0) => w = last.remainder0[b][j]
            /\ (bud > 0 /\ bud - p > 0) => w = p
            /\ bud <= 0 => w = 0
            /\ calls = 1 =>
                /\ bud = One - HaltEpsilon
                /\ p = One =>
                    /\ bud - p <= 0
                    /\ w = One
                    /\ last.remainder0[b][j] = One
                    /\ active_steps[b][j] =
                          IF Padding(last.arg.lengths, b, j) THEN 0 ELSE One

\* C2 witness: the first call of a fresh instance has finished, with lengths,
\* with a token of p = 1.0 within its row's length weighted by the remainder
\* and counted, a padding token of p = 1.0 weighted by the remainder and not
\* counted, and a token weighted by its p < 1
C2_Witness ==
    /\ Completed /\ calls = 1
    /\ \E tok \in Tokens(last.halting) :
          /\ ~Padding(last.arg.lengths, tok[1], tok[2])
          /\ last.halting[tok[1]][tok[2]] = One
          /\ last.halting_prob[tok[1]][tok[2]] = One
          /\ active_steps[tok[1]][tok[2]] = One
    /\ \E tok \in Tokens(last.halting) :
          /\ Padding(last.arg.lengths, tok[1], tok[2])
          /\ last.halting[tok[1]][tok[2]] = One
          /\ last.halting_prob[tok[1]][tok[2]] = One
          /\ active_steps[tok[1]][tok[2]] = 0
    /\ \E tok \in Tokens(last.halting) :
          /\ last.halting[tok[1]][tok[2]] < One
          /\ last.halting_prob[tok[1]][tok[2]] = last.halting[tok[1]][tok[2]]

\* the remainder a call starts with, masked by the lengths of that call
MaskedRemainder0(l, b, j) ==
    IF Padding(l.arg.lengths, b, j) THEN 0 ELSE l.remainder0[b][j]

\* C3: after every call, ponder_cost of each batch row is time_penalty times
\* the mean over the sequence of (length-masked remainder from before this
\* call's remainder update + length-masked active_steps including this
\* call's increment); no earlier ponder_cost enters.
C3_PonderRecomputed ==
    [][calls' = calls + 1 =>
        LET S == SeqOf(last'.arg.input) IN
        ponder_cost' =
            [b \in 1..BatchOf(last'.arg.input) |->
                <<TimePenalty *
                    SumSeq([j \in 1..S |->
                        MaskedRemainder0(last', b, j) + active_steps'[b][j]]),
                  S>>]]_vars

\* C3 witness: a second call without reinitialisation, with lengths, has
\* computed a ponder cost that differs from the one of the first call
C3_Witness ==
    /\ Completed /\ calls = 2 /\ ~last.reinit
    /\ last.arg.lengths # None
    /\ ponder_cost = ponder_hist[2]
    /\ ponder_hist[2] # ponder_hist[1]

\* C4: with lengths supplied, in every call every padding position
\* contributes 0 to remainder and to active_steps in the ponder-cost sum, so
\* the ponder cost of a row is the sum over its valid positions only.
C4_PaddingContributesZero ==
    [][(calls' = calls + 1 /\ last'.arg.lengths # None) =>
        LET S == SeqOf(last'.arg.input)
            L == last'.arg.lengths
        IN
        \A b \in 1..BatchOf(last'.arg.input) :
            /\ \A j \in (L[b] + 1)..S :
                  /\ active_steps'[b][j] = 0
                  /\ remainder'[b][j] =
                        IF last'.no_further_steps[b][j] THEN 0
                        ELSE 0 - last'.halting[b][j]
            /\ ponder_cost'[b] =
                  <<TimePenalty *
                      SumSeq([j \in 1..L[b] |->
                          last'.remainder0[b][j] + active_steps'[b][j]]),
                    S>>]_vars

\* C4 witness: a second call with lengths in which a padding position was
\* still active and produced a halting probability
C4_Witness ==
    /\ Completed /\ calls = 2 /\ ~last.reinit
    /\ last.arg.lengths # None
    /\ \E tok \in Tokens(last.halting) :
          /\ Padding(last.arg.lengths, tok[1], tok[2])
          /\ last.step_is_active[tok[1]][tok[2]]
          /\ last.halting[tok[1]][tok[2]] > 0
          /\ active_steps[tok[1]][tok[2]] = 0

\* C5: finalize() after n >= 1 calls registers exactly one loss term, the
\* ponder_cost computed by the n-th call; nothing else registers a loss.
C5_FinalizeRegistersLast ==
    [][/\ (last'.op = "finalize" /\ calls >= 1 /\ <<losses, last>>' # <<losses, last>>) =>
            /\ Len(losses') = Len(losses) + 1
            /\ SubSeq(losses', 1, Len(losses)) = losses
            /\ losses'[Len(losses')] = ponder_hist[Len(ponder_hist)]
       /\ losses' # losses => last'.op = "finalize"]_vars

\* C5 witness: finalize after two calls whose ponder costs differ
C5_Witness ==
    /\ last.op = "finalize" /\ calls = 2
    /\ Len(losses) = 1
    /\ ponder_hist[1] # ponder_hist[2]
    /\ losses[1] = ponder_hist[2]

\* C6: a call (re)initialises the control state to halt_budget =
\* 1 - halt_epsilon, remainder = 1, active_steps = 0 exactly when it is the
\* first call or the batch size differs from the previous call's; on every
\* other call budget, remainder and active_steps carry over (a call that
\* differs in the sequence length only keeps them and is rejected by the
\* backend).
C6_InitExactlyOnBatchChange ==
    [][/\ calls' = calls + 1 =>
            LET x == last'.arg.input
                L == last'.arg.lengths
                p == last'.halting
            IN
            IF calls = 0 \/ batch_size # BatchOf(x)
            THEN \A tok \in Tokens(x) :
                    LET b == tok[1]
                        j == tok[2]
                    IN
                    /\ last'.budget0[b][j] = One - HaltEpsilon
                    /\ last'.remainder0[b][j] = One
                    /\ halt_budget'[b][j] = One - HaltEpsilon - p[b][j]
                    /\ active_steps'[b][j] = IF Padding(L, b, j) THEN 0 ELSE One
            ELSE \A tok \in Tokens(x) :
                    LET b == tok[1]
                        j == tok[2]
                        r == IF Padding(L, b, j) THEN 0 ELSE remainder[b][j]
                    IN
                    /\ halt_budget'[b][j] = halt_budget[b][j] - p[b][j]
                    /\ remainder'[b][j] =
                          IF halt_budget[b][j] - p[b][j] <= 0 THEN r ELSE r - p[b][j]
                    /\ active_steps'[b][j] =
                          IF Padding(L, b, j) THEN 0
                          ELSE active_steps[b][j]
                               + (IF halt_budget[b][j] > 0 THEN One ELSE 0)
       /\ last'.err = "ShapeError" =>
            /\ batch_size = BatchOf(last'.arg.input)
            /\ UNCHANGED <<halt_budget, remainder, active_steps>>]_vars

\* C6 witness: a second call with another batch size has reinitialised
C6_Witness ==
    /\ Completed /\ calls = 2 /\ last.reinit
    /\ \A tok \in Tokens(last.halting) :
          halt_budget[tok[1]][tok[2]]
              = One - HaltEpsilon - last.halting[tok[1]][tok[2]]

\* C7: the returned weighted_output is the sum of the per-step weighted
\* outputs of the calls since, and including, the most recent call that
\* (re)initialised the control state; the accumulator has the recorded batch
\* size.
C7_AccumulatorSinceInit ==
    /\ weighted_output = step_sum
    /\ weighted_output # None => BatchOf(weighted_output) = batch_size

\* C7 witness: a second call without reinitialisation has added its weighted
\* output to a non-zero total
C7_Witness ==
    /\ Completed /\ calls = 2 /\ ~last.reinit
    /\ weighted_output # last.step_weighted_output
    /\ last.step_weighted_output # ZerosLike(last.step_weighted_output)

\* C8: for every token active_steps is the number of calls since the last
\* (re)initialisation that began with its halt_budget > 0, and 0 at padding
\* positions when lengths are supplied; so 0 <= active_steps <= n after n
\* calls.
C8_ActiveStepsCount ==
    Completed =>
        \A tok \in Tokens(active_steps) :
            LET b == tok[1]
                j == tok[2]
            IN
            /\ IF Padding(last.arg.lengths, b, j)
               THEN active_steps[b][j] = 0
               ELSE active_steps[b][j] = n_active[b][j]
            /\ 0 <= active_steps[b][j]
            /\ active_steps[b][j] <= calls * One

\* C9: TransformerBlock.__call__ accepts a single 3D tensor of any batch
\* size (lengths absent) and a two-element list; every other argument fails
\* with ValueError before the attention layer is invoked.
C9_BlockCallContract ==
    blk_last.op = "call" =>
        IF blk_last.arg.kind = "tensor" /\ Len(blk_last.arg.shape) = 3
        THEN /\ blk_last.err = "none"
             /\ blk_last.attention_called
             /\ blk_last.lengths_is = "None"
        ELSE IF blk_last.arg.kind = "list" /\ blk_last.arg.n = 2
        THEN blk_last.err = "none" /\ blk_last.attention_called
        ELSE blk_last.err = "ValueError" /\ ~blk_last.attention_called

\* C10: a TransformerACT call whose argument is neither a two-element list
\* nor a single 3D tensor fails with ValueError and leaves halt_budget,
\* remainder, active_steps, weighted_output, ponder_cost and the recorded
\* batch size as they were.
C10_InvalidCallRejected ==
    [][(last'.op = "call" /\ last' # last
          /\ ~IsListOfTwoOr3D(last'.arg)) =>
            /\ last'.err = "ValueError"
            /\ UNCHANGED act_state]_vars

\* C11: constructing a TransformerBlock succeeds only for transition_type
\* 'dot' or 'cnn'; for every other value the constructor fails with
\* NotImplementedError and no block of that type exists, so the error never
\* comes at call time.
C11_UnknownTransitionRejected ==
    /\ blk_last.op = "init" =>
          IF blk_last.transition_type \in {"dot", "cnn"}
          THEN /\ blk_last.err = "none"
               /\ block.constructed
               /\ block.transition_type = blk_last.transition_type
          ELSE blk_last.err = "NotImplementedError"
    /\ block.constructed => block.transition_type \in {"dot", "cnn"}
    /\ blk_last.op = "call" => blk_last.err # "NotImplementedError"

\* C11 witness: a construction with transition type 'rnn' has failed
C11_Witness ==
    /\ blk_last.op = "init"
    /\ blk_last.transition_type = "rnn"
    /\ blk_last.err = "NotImplementedError"

\* the dropout step of the block: a Dropout layer, or nothing for rate 0
C12_Dropout(x) ==
    IF block.residual_dropout > 0 THEN Apply("Dropout", <<x>>) ELSE x

\* the output of the first normalization instance
C12_Norm1 ==
    LET attn == Apply("attention_layer", <<blk_last.input, blk_last.lengths>>)
    IN Apply("norm1_layer",
             <<IF block.vanilla_wiring
               THEN Apply("addition_layer", <<blk_last.input, C12_Dropout(attn)>>)
               ELSE C12_Dropout(Apply("addition_layer", <<blk_last.input, attn>>))>>)

\* C12: with vanilla_wiring, output = Norm2(n1 + dropout(Transition(n1)))
\* where n1 = Norm1(input + dropout(Attention(input, lengths))); without,
\* output = Norm2(dropout(n1 + Transition(n1))) where
\* n1 = Norm1(dropout(input + Attention(input, lengths))); Norm1 and Norm2
\* are distinct instances and the second residual adds n1.
C12_WiringOrder ==
    (blk_last.op = "call" /\ blk_last.err = "none") =>
        LET n1 == C12_Norm1
            trans == Apply(IF block.transition_type = "dot"
                           THEN "TransformerTransition" ELSE "Conv1D", <<n1>>)
        IN
        /\ blk_last.output =
              Apply("norm2_layer",
                    <<IF block.vanilla_wiring
                      THEN Apply("addition_layer", <<n1, C12_Dropout(trans)>>)
                      ELSE C12_Dropout(Apply("addition_layer", <<n1, trans>>))>>)
        /\ blk_last.output.op # n1.op

\* C12 witness: a call of a block with vanilla wiring and a Dropout layer
\* has returned
C12_Witness ==
    /\ blk_last.op = "call" /\ blk_last.err = "none"
    /\ block.vanilla_wiring
    /\ block.residual_dropout > 0
    /\ blk_last.output.op = "norm2_layer"
    /\ blk_last.output.args[1].op = "addition_layer"

\* C13: with residual_dropout = 0 the dropout step is the identity, so the
\* output of a call is the output the block with the other vanilla_wiring
\* value (same sub-layers) gives for the same input.
C13_WiringsAgreeWithoutDropout ==
    (blk_last.op = "call" /\ blk_last.err = "none"
        /\ block.residual_dropout = 0) =>
        /\ blk_last.output =
              BlockOutput([block EXCEPT !.vanilla_wiring = ~@],
                          blk_last.input, blk_last.lengths)
        /\ \A x \in {blk_last.input, blk_last.output} :
              dropout_layer(block, x) = x

\* C13 witness: a call of a block with residual_dropout = 0 has returned
C13_Witness ==
    /\ blk_last.op = "call" /\ blk_last.err = "none"
    /\ block.residual_dropout = 0
    /\ blk_last.output.op = "norm2_layer"
    /\ blk_last.lengths = Leaf("_input[1]")

\* C14: after every call the ponder_cost of every batch row is non-negative,
\* and at every position entering the ponder-cost mean the (length-masked)
\* remainder plus the (length-masked) active_steps is >= 0, with or without
\* lengths.
C14_PonderCostNonNegative ==
    Completed =>
        /\ \A b \in 1..Len(ponder_cost) : ponder_cost[b][1] >= 0
        /\ \A tok \in Tokens(active_steps) :
              MaskedRemainder0(last, tok[1], tok[2])
                  + active_steps[tok[1]][tok[2]] >= 0

\* C14 witness: a negative remainder (left by the masking of an earlier call)
\* has entered the mean of a second call at a position that is not masked
C14_Witness ==
    /\ Completed /\ calls = 2 /\ ~last.reinit
    /\ \E tok \in Tokens(active_steps) :
          /\ ~Padding(last.arg.lengths, tok[1], tok[2])
          /\ last.remainder0[tok[1]][tok[2]] < 0
          /\ last.remainder0[tok[1]][tok[2]] + active_steps[tok[1]][tok[2]] > 0

\* C15: every successful call returns (input unchanged, weighted_output
\* total, ponder_cost), exactly 3 values, when return_step is False, and
\* exactly 4 values, the fourth being active_steps, when return_step is True;
\* the first returned value is the call's own input tensor.
C15_ReturnedValues ==
    Completed =>
        /\ Len(last.returned) = IF return_step THEN 4 ELSE 3
        /\ last.returned[1] = last.arg.input
        /\ last.returned[2] = weighted_output
        /\ last.returned[3] = ponder_cost
        /\ return_step => last.returned[4] = active_steps

\* C15 witness: a second call of an instance with return_step = True has
\* returned four values, the steps counted so far among them
C15_Witness ==
    /\ Completed /\ calls = 2 /\ ~last.reinit
    /\ return_step
    /\ Len(last.returned) = 4
    /\ \E tok \in Tokens(active_steps) :
          last.returned[4][tok[1]][tok[2]] = 2 * One

\* C16: at the start of every call, for every token that no earlier call
\* has exhausted, remainder = 1 - (sum of p over the earlier calls since
\* initialisation); the exhausting call and every later call leave the
\* remainder as they found it; at every position of the sequence, with or
\* without lengths.
C16_RemainderTracksBudget ==
    Completed =>
        \A tok \in Tokens(remainder) :
            IF halted[tok[1]][tok[2]]
            THEN remainder[tok[1]][tok[2]] = last.remainder0[tok[1]][tok[2]]
            ELSE remainder[tok[1]][tok[2]] = One - halting_sum[tok[1]][tok[2]]

\* C17: halted is absorbing: every call subtracts p from halt_budget, so a
\* token whose halt_budget is <= 0 before a call that does not reinitialise
\* has halt_budget <= 0 after it; in that call the token is inactive, its
\* effective halting weight is 0, its active_steps is not incremented and
\* its part of weighted_output does not change.
C17_HaltedIsAbsorbing ==
    [][(calls' = calls + 1 /\ ~last'.reinit) =>
        \A tok \in Tokens(halt_budget) :
            LET b == tok[1]
                j == tok[2]
            IN
            /\ halt_budget'[b][j] = halt_budget[b][j] - last'.halting[b][j]
            /\ halt_budget[b][j] <= 0 =>
                /\ halt_budget'[b][j] <= 0
                /\ ~last'.step_is_active[b][j]
                /\ last'.halting_prob[b][j] = 0
                /\ active_steps'[b][j] <= active_steps[b][j]
                /\ active_steps'[b][j] \in {active_steps[b][j], 0}
                /\ weighted_output'[b][j] = weighted_output[b][j]]_vars

\* C17 witness: a second call found a token with its budget used up, and a
\* non-zero part of weighted_output kept for it, next to a token still active
C17_Witness ==
    /\ Completed /\ calls = 2 /\ ~last.reinit
    /\ \E tok \in Tokens(halt_budget) :
          /\ last.budget0[tok[1]][tok[2]] <= 0
          /\ halt_budget[tok[1]][tok[2]] < last.budget0[tok[1]][tok[2]]
          /\ active_steps[tok[1]][tok[2]] = One
          /\ weighted_output[tok[1]][tok[2]] # 0
    /\ last.any_step_is_active

\* C18: in every call the per-step weighted output equals the effective
\* halting weight times the input for every token, both when some token of
\* the batch is active and when none is; in that case every effective weight
\* is 0 and the substituted tensor of zeros is the same value.
C18_SkipPreservesResult ==
    Completed =>
        /\ ShapeOf(last.step_weighted_output) = ShapeOf(last.arg.input)
        /\ \A tok \in Tokens(last.arg.input) :
              last.step_weighted_output[tok[1]][tok[2]]
                  = last.halting_prob[tok[1]][tok[2]]
                        * last.arg.input[tok[1]][tok[2]]
        /\ last.any_step_is_active
              = (\E tok \in Tokens(last.budget0) :
                    last.budget0[tok[1]][tok[2]] > 0)
        /\ ~last.any_step_is_active =>
              /\ \A tok \in Tokens(last.halting_prob) :
                    last.halting_prob[tok[1]][tok[2]] = 0
              /\ last.step_weighted_output = ZerosLike(last.arg.input)

\* C18 witness: a call in which no token was active has returned
C18_Witness ==
    /\ Completed /\ calls = 2 /\ ~last.reinit
    /\ ~last.any_step_is_active
    /\ last.step_weighted_output = ZerosLike(last.arg.input)
    /\ \A tok \in Tokens(last.arg.input) : last.arg.input[tok[1]][tok[2]] # 0

====
